---- MODULE Spec2Model ----
(***************************************************************************)
(* The durable two-phase workflow of the meal planner (src/src/main.rs),   *)
(* over the SQLite tables of src/src/lib.rs `database`.  Every SQL         *)
(* statement is committed on its own (the pool runs in autocommit mode),   *)
(* so every statement is one step and a run can end between any two.       *)
(***************************************************************************)
EXTENDS Integers, Sequences, FiniteSets, TLC

\* ---------------------------------------------------------------- bounds
MaxPage == 2            \* recipes on one fetched catalog page
MaxRuns == 2            \* invocations of the program under Spec
MaxRunsLong == 3        \* invocations of the program under SpecLong

\* ------------------------------------------------------ program constants
Prepare == 0            \* Mode::Prepare (the spec's Gather)
Review == 1             \* Mode::Review
Dislike == -1
None == 0
Like == 1
Love == 2
Ratings == {Dislike, None, Like, Love}

\* What validation_input::<i64> accepts: any i64, negative ones included.
\* Here: 0, the counts up to a full page, and -1.
NChoices == [k \in 1..(MaxPage + 2) |-> IF k = MaxPage + 2 THEN -1 ELSE k - 1]

\* ---------------------------------------------------------------- helpers
Range(s) == {s[k] : k \in DOMAIN s}

Distinct(s) == \A a, b \in DOMAIN s : a # b => s[a] # s[b]

Reverse(s) == [k \in 1..Len(s) |-> s[Len(s) + 1 - k]]

\* Iterator::take(n as usize): a negative i64 cast to usize is huge.
Take(s, n) == IF n < 0 \/ n >= Len(s) THEN s ELSE SubSeq(s, 1, n)

RECURSIVE SeqsUpTo(_, _)
SeqsUpTo(S, n) ==
    IF n = 0 THEN {<<>>}
    ELSE LET shorter == SeqsUpTo(S, n - 1)
         IN  shorter \cup {Append(s, x) : s \in shorter, x \in S}

RECURSIVE SumSeq(_)
SumSeq(s) == IF s = <<>> THEN 0 ELSE s[1] + SumSeq(Tail(s))

\* scores.sort_by(|a, b| a.1.cmp(&b.1)) on pairs <<recipe, score>>: a stable sort,
\* written as an insertion sort that puts an item after the items not greater.
RECURSIVE InsertByScore(_, _)
InsertByScore(sorted, x) ==
    IF sorted = <<>> THEN <<x>>
    ELSE IF sorted[Len(sorted)][2] <= x[2] THEN Append(sorted, x)
    ELSE Append(InsertByScore(SubSeq(sorted, 1, Len(sorted) - 1), x),
                sorted[Len(sorted)])

RECURSIVE SortByScore(_)
SortByScore(s) ==
    IF s = <<>> THEN <<>>
    ELSE InsertByScore(SortByScore(SubSeq(s, 1, Len(s) - 1)), s[Len(s)])

\* ------------------------------------------------------------ the catalog
\* The records of the remote catalog: recipe id -> the tag ids of its `tags`.
Catalog == <<  <<1>>, <<2>>, <<1, 2>>  >>

RecipeIds == DOMAIN Catalog
CatalogTags(r) == Catalog[r]
TagIds == UNION {Range(CatalogTags(r)) : r \in RecipeIds}

\* A page get_recipes_list may return: any recipes, in any order, ids may repeat.
Pages == SeqsUpTo(RecipeIds, MaxPage)

\* ------------------------------------------------------------------ state
VARIABLES
    installed,          \* the `data` table holds its row
    mode, offset,       \* data.mode, data.offset
    recipes,            \* ids of the rows of `recipes` (RecipeHistory)
    previous_recipes,   \* rows of `previous_recipes` (PendingBatch), in insertion order
    recipe_tags,        \* rows of `recipe_tags`: recipe id -> its tag ids, in row order
    tags,               \* rows of `tags`: tag id -> likes
    pc,                 \* position of the running invocation
    n_recipes,          \* prepare: the count typed by the operator
    recipes_list,       \* prepare: the page get_recipes_list returned
    prepare_recipes,    \* prepare: `recipes`, the result of get_matching_recipes
    review_recipes,     \* review: `previous_recipes`, the result of get_previous_recipes
    recipe_tag_list,    \* review: the tags get_recipe_tags returned for the current recipe
    rating,             \* review: the rating typed for the current recipe
    i, j,               \* loop positions: recipe, tag
    runs,               \* invocations started
    phase,              \* which phase this invocation runs
    mode0, offset0, prev0, hist0,   \* the durable state when this invocation started
    rated,              \* recipes this invocation has asked a rating for
    ledger,             \* per tag: sum of the ratings typed for recipes carrying it
    recorded,           \* pending recipes whose rating is committed to every tag
    interrupted,        \* some Review phase ended before its last statement
    fn_pc,              \* a library function exercised on its own: "idle", "call", "return"
    fn_name,            \* which function
    fn_args,            \* its arguments
    fn_locals,          \* its local variables
    fn_ret              \* its return value

durable == <<installed, mode, offset, recipes, previous_recipes, recipe_tags, tags>>
locals == <<n_recipes, recipes_list, prepare_recipes, review_recipes,
            recipe_tag_list, rating, i, j>>
ghosts == <<runs, phase, mode0, offset0, prev0, hist0, rated, ledger, recorded,
            interrupted>>
workflow == <<durable, pc, locals, ghosts>>
fn_vars == <<fn_pc, fn_name, fn_args, fn_locals, fn_ret>>
vars == <<workflow, fn_vars>>

Halted == {"idle", "done", "failed"}

\* ------------------------------------------------- the database statements
recipe_exists(recipe_id, rcps) == recipe_id \in rcps

\* Mutant: the filter against the `recipes` table is left out.
remove_duplicate_recipes_unfiltered(rs, rcps) == rs

remove_duplicate_recipes(rs, rcps) ==
    SelectSeq(rs, LAMBDA r : ~recipe_exists(r, rcps))

\* SELECT ... FROM recipe_tags WHERE recipe_id = $1, then each tag's row.
get_recipe_tags(recipe_id, rts) == rts[recipe_id]

\* The score get_matching_recipes gives a recipe: the likes of the tags the
\* `recipe_tags` table relates to its id.
recipe_score(recipe_id, rts, tgs) ==
    LET ts == get_recipe_tags(recipe_id, rts)
    IN  SumSeq([k \in 1..Len(ts) |-> tgs[ts[k]]])

\* Mutant: the sorted list is not reversed before the first n are taken.
get_matching_recipes_lowest(rs, n, rts, tgs) ==
    LET scores == [k \in 1..Len(rs) |-> <<rs[k], recipe_score(rs[k], rts, tgs)>>]
        sorted == SortByScore(scores)
    IN  Take([k \in 1..Len(sorted) |-> sorted[k][1]], n)

get_matching_recipes(rs, n, rts, tgs) ==
    LET scores == [k \in 1..Len(rs) |-> <<rs[k], recipe_score(rs[k], rts, tgs)>>]
        sorted == SortByScore(scores)
    IN  Take(Reverse([k \in 1..Len(sorted) |-> sorted[k][1]]), n)

\* Mutant: the query loses the last pending row.
get_previous_recipes_short(prev, rcps) ==
    IF prev = <<>> THEN <<>> ELSE SubSeq(prev, 1, Len(prev) - 1)

get_previous_recipes(prev, rcps) == SelectSeq(prev, LAMBDA r : r \in rcps)

store_tag(tag_id, tgs) == IF tag_id \in DOMAIN tgs THEN tgs ELSE tgs @@ (tag_id :> 0)

\* INSERT INTO recipe_tags (recipe_id, tag_id): the table has no key, rows repeat.
store_recipe_tag(recipe_id, tag_id, rts) ==
    [rts EXCEPT ![recipe_id] = Append(@, tag_id)]

store_previous_recipe(recipe_id, prev) == Append(prev, recipe_id)

\* Mutant: the offset advances by the page size instead of by the recipe count.
increment_offset_by_page(n, off) == off + MaxPage

increment_offset(n, off) == off + n

update_tag_likes(id, value, tgs) ==
    IF id \in DOMAIN tgs THEN [tgs EXCEPT ![id] = @ + value] ELSE tgs

delete_previous_recipes(prev) == <<>>

\* prepare's `all_recipes`: the page filtered against the `recipes` table, which
\* holds what it held when the run started (prepare has written nothing yet).
all_recipes == remove_duplicate_recipes(recipes_list, hist0)

\* ------------------------------------------------------------------- Init
InitWorkflow ==
    /\ installed = FALSE
    /\ mode = Prepare
    /\ offset = 0
    /\ recipes = {}
    /\ previous_recipes = <<>>
    /\ recipe_tags = [r \in RecipeIds |-> <<>>]
    /\ tags = <<>>
    /\ pc = "idle"
    /\ n_recipes = 0
    /\ recipes_list = <<>>
    /\ prepare_recipes = <<>>
    /\ review_recipes = <<>>
    /\ recipe_tag_list = <<>>
    /\ rating = None
    /\ i = 1
    /\ j = 1
    /\ runs = 0
    /\ phase = "none"
    /\ mode0 = Prepare
    /\ offset0 = 0
    /\ prev0 = <<>>
    /\ hist0 = {}
    /\ rated = <<>>
    /\ ledger = [t \in TagIds |-> 0]
    /\ recorded = {}
    /\ interrupted = FALSE

\* No library function is exercised on its own while the program runs.
Init ==
    /\ InitWorkflow
    /\ fn_pc = "idle"
    /\ fn_name = "none"
    /\ fn_args = <<>>
    /\ fn_locals = <<>>
    /\ fn_ret = <<>>

\* ------------------------------------------------------------------ main_
\* The program is started (again).
Launch(limit) ==
    /\ pc \in Halted
    /\ runs < limit
    /\ pc' = "boot"
    /\ runs' = runs + 1
    /\ phase' = "none"
    /\ mode0' = mode
    /\ offset0' = offset
    /\ prev0' = previous_recipes
    /\ hist0' = recipes
    /\ rated' = <<>>
    /\ n_recipes' = 0
    /\ recipes_list' = <<>>
    /\ prepare_recipes' = <<>>
    /\ review_recipes' = <<>>
    /\ recipe_tag_list' = <<>>
    /\ rating' = None
    /\ i' = 1
    /\ j' = 1
    /\ UNCHANGED <<durable, ledger, recorded, interrupted>>
    /\ UNCHANGED fn_vars

\* if !tables_exist { create_tables; populate_data_table }
Boot ==
    /\ pc = "boot"
    /\ pc' = "get_mode"
    /\ IF installed
       THEN UNCHANGED <<installed, mode, offset>>
       ELSE installed' = TRUE /\ mode' = Prepare /\ offset' = 0
    /\ UNCHANGED <<recipes, previous_recipes, recipe_tags, tags, locals, ghosts>>
    /\ UNCHANGED fn_vars

\* Mutant: the branch on the persisted mode always takes prepare.
Dispatch_always_prepare ==
    /\ pc = "get_mode"
    /\ pc' = "prepare"
    /\ phase' = "prepare"
    /\ UNCHANGED <<durable, locals, runs, mode0, offset0, prev0, hist0, rated,
                   ledger, recorded, interrupted>>
    /\ UNCHANGED fn_vars

\* let mode = get_mode(); if mode == Mode::Prepare { prepare } else { review }
Dispatch ==
    /\ pc = "get_mode"
    /\ IF mode = Prepare
       THEN pc' = "prepare" /\ phase' = "prepare"
       ELSE pc' = "review" /\ phase' = "review"
    /\ UNCHANGED <<durable, locals, runs, mode0, offset0, prev0, hist0, rated,
                   ledger, recorded, interrupted>>
    /\ UNCHANGED fn_vars

\* Any step can fail (`?`), and the process can be killed between two steps:
\* the run ends, what was committed stays.
Abort ==
    /\ pc \notin Halted
    /\ pc' = "failed"
    /\ interrupted' = (interrupted \/ phase = "review")
    /\ n_recipes' = 0
    /\ recipes_list' = <<>>
    /\ prepare_recipes' = <<>>
    /\ review_recipes' = <<>>
    /\ recipe_tag_list' = <<>>
    /\ rating' = None
    /\ i' = 1
    /\ j' = 1
    /\ rated' = <<>>
    /\ UNCHANGED <<durable, runs, phase, mode0, offset0, prev0, hist0, ledger,
                   recorded>>
    /\ UNCHANGED fn_vars

\* ---------------------------------------------------------------- prepare
\* The prompt, the catalog request, the filter, the selection and the two
\* artifacts: nothing durable is written by these lines.
PrepareSelect ==
    /\ pc = "prepare"
    /\ \E k \in DOMAIN NChoices, page \in Pages :
         LET n == NChoices[k]
             unique == remove_duplicate_recipes(page, recipes)
             chosen == get_matching_recipes(unique, n, recipe_tags, tags)
         IN  /\ n_recipes' = n
             /\ recipes_list' = page
             /\ prepare_recipes' = chosen
             /\ pc' = IF chosen = <<>> THEN "increment_offset" ELSE "store_recipe"
    /\ i' = 1
    /\ j' = 1
    /\ UNCHANGED <<durable, review_recipes, recipe_tag_list, rating, ghosts>>
    /\ UNCHANGED fn_vars

\* Mutant: store_recipe writes no row of `recipes`.
StoreRecipe_no_row ==
    /\ pc = "store_recipe"
    /\ j' = 1
    /\ pc' = IF CatalogTags(prepare_recipes[i]) = <<>> THEN "store_prev" ELSE "store_tag"
    /\ UNCHANGED <<durable, n_recipes, recipes_list, prepare_recipes,
                   review_recipes, recipe_tag_list, rating, i, ghosts>>
    /\ UNCHANGED fn_vars

\* store_recipe: INSERT OR IGNORE INTO recipes
StoreRecipe ==
    /\ pc = "store_recipe"
    /\ recipes' = recipes \cup {prepare_recipes[i]}
    /\ j' = 1
    /\ pc' = IF CatalogTags(prepare_recipes[i]) = <<>> THEN "store_prev" ELSE "store_tag"
    /\ UNCHANGED <<installed, mode, offset, previous_recipes, recipe_tags, tags,
                   n_recipes, recipes_list, prepare_recipes,
                   review_recipes, recipe_tag_list, rating, i, ghosts>>
    /\ UNCHANGED fn_vars

\* store_recipe_tag_relationship, first statement: store_tag
StoreTag ==
    /\ pc = "store_tag"
    /\ tags' = store_tag(CatalogTags(prepare_recipes[i])[j], tags)
    /\ pc' = "store_rel"
    /\ UNCHANGED <<installed, mode, offset, recipes, previous_recipes, recipe_tags,
                   locals, ghosts>>
    /\ UNCHANGED fn_vars

\* store_recipe_tag_relationship, second statement: INSERT INTO recipe_tags
StoreRel ==
    /\ pc = "store_rel"
    /\ recipe_tags' = store_recipe_tag(prepare_recipes[i],
                                        CatalogTags(prepare_recipes[i])[j], recipe_tags)
    /\ IF j < Len(CatalogTags(prepare_recipes[i]))
       THEN j' = j + 1 /\ pc' = "store_tag"
       ELSE j' = 1 /\ pc' = "store_prev"
    /\ UNCHANGED <<installed, mode, offset, recipes, previous_recipes, tags,
                   n_recipes, recipes_list, prepare_recipes,
                   review_recipes, recipe_tag_list, rating, i, ghosts>>
    /\ UNCHANGED fn_vars

\* store_previous_recipe, then the next recipe of the loop
StorePrevious ==
    /\ pc = "store_prev"
    /\ previous_recipes' = store_previous_recipe(prepare_recipes[i], previous_recipes)
    /\ IF i < Len(prepare_recipes)
       THEN i' = i + 1 /\ pc' = "store_recipe"
       ELSE i' = 1 /\ pc' = "increment_offset"
    /\ UNCHANGED <<installed, mode, offset, recipes, recipe_tags, tags,
                   n_recipes, recipes_list, prepare_recipes,
                   review_recipes, recipe_tag_list, rating, j, ghosts>>
    /\ UNCHANGED fn_vars

\* Mutant: the mode is switched together with the offset, before the last statement.
IncrementOffset_and_mode ==
    /\ pc = "increment_offset"
    /\ offset' = increment_offset(n_recipes, offset)
    /\ mode' = Review
    /\ pc' = "set_mode_review"
    /\ UNCHANGED <<installed, recipes, previous_recipes, recipe_tags, tags,
                   locals, ghosts>>
    /\ UNCHANGED fn_vars

IncrementOffset ==
    /\ pc = "increment_offset"
    /\ offset' = increment_offset(n_recipes, offset)
    /\ pc' = "set_mode_review"
    /\ UNCHANGED <<installed, mode, recipes, previous_recipes, recipe_tags, tags,
                   locals, ghosts>>
    /\ UNCHANGED fn_vars

SetModeReview ==
    /\ pc = "set_mode_review"
    /\ mode' = Review
    /\ pc' = "done"
    /\ UNCHANGED <<installed, offset, recipes, previous_recipes, recipe_tags, tags,
                   locals, ghosts>>
    /\ UNCHANGED fn_vars

\* ----------------------------------------------------------------- review
ReviewLoad ==
    /\ pc = "review"
    /\ review_recipes' = get_previous_recipes(previous_recipes, recipes)
    /\ i' = 1
    /\ j' = 1
    /\ pc' = IF get_previous_recipes(previous_recipes, recipes) = <<>>
             THEN "delete_prev" ELSE "rate"
    /\ UNCHANGED <<durable, n_recipes, recipes_list, prepare_recipes,
                   recipe_tag_list, rating, ghosts>>
    /\ UNCHANGED fn_vars

\* Where the loops go after the tag at position k of the current recipe.
AfterTag(k, ts) ==
    IF k < Len(ts) THEN <<"update_tag", i, k + 1>>
    ELSE IF i < Len(review_recipes) THEN <<"rate", i + 1, 1>>
    ELSE <<"delete_prev", 1, 1>>

\* The prompt for the current recipe, then get_recipe_tags for it.
Rate ==
    /\ pc = "rate"
    /\ \E rt \in Ratings :
         /\ rating' = rt
         /\ ledger' = [t \in TagIds |->
                         ledger[t] + IF t \in Range(CatalogTags(review_recipes[i]))
                                     THEN rt ELSE 0]
    /\ rated' = Append(rated, review_recipes[i])
    /\ LET ts == get_recipe_tags(review_recipes[i], recipe_tags)
           next == AfterTag(0, ts)
       IN  /\ recipe_tag_list' = ts
           /\ pc' = next[1]
           /\ i' = next[2]
           /\ j' = 1
           /\ recorded' = IF ts = <<>> THEN recorded \cup {review_recipes[i]}
                          ELSE recorded
    /\ UNCHANGED <<durable, n_recipes, recipes_list, prepare_recipes,
                   review_recipes, runs, phase, mode0, offset0, prev0, hist0,
                   interrupted>>
    /\ UNCHANGED fn_vars

UpdateTag ==
    /\ pc = "update_tag"
    /\ tags' = update_tag_likes(recipe_tag_list[j], rating, tags)
    /\ LET next == AfterTag(j, recipe_tag_list)
       IN  /\ pc' = next[1]
           /\ i' = next[2]
           /\ j' = next[3]
    /\ recorded' = IF j = Len(recipe_tag_list) THEN recorded \cup {review_recipes[i]}
                   ELSE recorded
    /\ UNCHANGED <<installed, mode, offset, recipes, previous_recipes, recipe_tags,
                   n_recipes, recipes_list, prepare_recipes,
                   review_recipes, recipe_tag_list, rating, runs, phase, mode0,
                   offset0, prev0, hist0, rated, ledger, interrupted>>
    /\ UNCHANGED fn_vars

DeletePrevious ==
    /\ pc = "delete_prev"
    /\ previous_recipes' = delete_previous_recipes(previous_recipes)
    /\ recorded' = {}
    /\ pc' = "set_mode_prepare"
    /\ UNCHANGED <<installed, mode, offset, recipes, recipe_tags, tags, locals,
                   runs, phase, mode0, offset0, prev0, hist0, rated, ledger,
                   interrupted>>
    /\ UNCHANGED fn_vars

SetModePrepare ==
    /\ pc = "set_mode_prepare"
    /\ mode' = Prepare
    /\ pc' = "done"
    /\ UNCHANGED <<installed, offset, recipes, previous_recipes, recipe_tags, tags,
                   locals, ghosts>>
    /\ UNCHANGED fn_vars

\* ------------------------------------------------------------------- Next
\* One step of a running invocation.
Step ==
    \/ Boot
    \/ Dispatch
    \/ Abort
    \/ PrepareSelect
    \/ StoreRecipe
    \/ StoreTag
    \/ StoreRel
    \/ StorePrevious
    \/ IncrementOffset
    \/ SetModeReview
    \/ ReviewLoad
    \/ Rate
    \/ UpdateTag
    \/ DeletePrevious
    \/ SetModePrepare

Next ==
    \/ Launch(MaxRuns)
    \/ Step

Spec == Init /\ [][Next]_vars

\* The same program followed over one more invocation.
NextLong ==
    \/ Launch(MaxRunsLong)
    \/ Step

SpecLong == Init /\ [][NextLong]_vars

\* ------------------------------------------------------------------ claims

\* C1: a Gather phase that starts with an empty PendingBatch and offset o,
\* is given N >= 1, finds at least N unseen candidates with distinct ids on
\* the page and completes without error, leaves offset = o + N, PendingBatch
\* holding exactly the N selected recipes, those recipes added to
\* RecipeHistory, and mode = Review.
C1_GatherCompletes ==
    (/\ pc = "done"
     /\ phase = "prepare"
     /\ prev0 = <<>>
     /\ n_recipes >= 1
     /\ Distinct(all_recipes)
     /\ Len(all_recipes) >= n_recipes)
    => /\ offset = offset0 + n_recipes
       /\ Len(prepare_recipes) = n_recipes
       /\ Distinct(prepare_recipes)
       /\ Range(prepare_recipes) \subseteq Range(recipes_list)
       /\ previous_recipes = prepare_recipes
       /\ recipes = hist0 \cup Range(prepare_recipes)
       /\ mode = Review

C1_Witness ==
    /\ pc = "done"
    /\ phase = "prepare"
    /\ prev0 = <<>>
    /\ n_recipes = 2
    /\ Distinct(all_recipes)
    /\ Len(all_recipes) >= n_recipes
    /\ Len(previous_recipes) = 2

\* C2: a Review phase that completes without error has asked a rating for
\* every row of PendingBatch, in order, and leaves PendingBatch empty and
\* mode = Gather, with offset and RecipeHistory as they were.
C2_ReviewCompletes ==
    (pc = "done" /\ phase = "review")
    => /\ rated = prev0
       /\ previous_recipes = <<>>
       /\ mode = Prepare
       /\ offset = offset0
       /\ recipes = hist0

C2_Witness ==
    /\ pc = "done"
    /\ phase = "review"
    /\ Len(prev0) >= 2
    /\ Len(rated) >= 2

\* C3: a recipe id that is in RecipeHistory when a Gather phase starts is not
\* among the recipes the phase selects (and lists), nor among the rows it adds
\* to PendingBatch, whatever runs came before.
C3_NoRepeat ==
    phase = "prepare"
    => /\ Range(prepare_recipes) \cap hist0 = {}
       /\ Len(previous_recipes) >= Len(prev0)
       /\ \A k \in (Len(prev0) + 1)..Len(previous_recipes) :
             previous_recipes[k] \notin hist0

C3_Witness ==
    /\ pc = "done"
    /\ phase = "prepare"
    /\ Range(recipes_list) \cap hist0 # {}
    /\ Len(previous_recipes) > Len(prev0)

\* The score the specification gives a candidate: the persisted likes of the
\* tags its catalog record carries, a tag without a row counting 0.
CatalogScore(r) ==
    SumSeq([k \in 1..Len(CatalogTags(r)) |->
              IF CatalogTags(r)[k] \in DOMAIN tags THEN tags[CatalogTags(r)[k]] ELSE 0])

\* C4: when a Gather phase has selected (and written nothing yet), no
\* candidate it left out has a higher sum of persisted tag likes than a
\* candidate it selected.
C4_SelectsHighestLikes ==
    (pc = "store_recipe" /\ i = 1)
    => \A s \in Range(prepare_recipes) :
          \A u \in Range(all_recipes) \ Range(prepare_recipes) :
              CatalogScore(s) >= CatalogScore(u)

\* C5: a Review phase that follows an interrupted one starts with only the
\* pending recipes whose rating is not yet committed: none of the recipes it
\* is about to rate has its rating already added to its tags.
C5_NoReplay ==
    (pc = "rate" /\ rated = <<>>)
    => Range(review_recipes) \cap recorded = {}

\* C6: a Gather phase that ended with an error leaves the durable offset and
\* the durable PendingBatch as they were when the phase started.
C6_GatherAllOrNothing ==
    (pc = "failed" /\ phase = "prepare")
    => /\ offset = offset0
       /\ previous_recipes = prev0

\* C7: a run that ends with an error leaves the persisted mode as it was when
\* the run started, and the mode changes only in the last statement of a
\* phase, the set_mode that completes the run.
C7_ModeOnlyAtEnd ==
    [][ /\ (pc' = "failed" => mode' = mode0')
        /\ (mode' # mode =>
              /\ pc \in {"set_mode_review", "set_mode_prepare"}
              /\ pc' = "done") ]_vars

C7_Witness ==
    /\ pc = "failed"
    /\ phase = "prepare"
    /\ offset # offset0
    /\ Len(previous_recipes) > Len(prev0)
    /\ mode = Prepare

\* C8: in every durable state between two runs, also one a failed run left,
\* PendingBatch is non-empty only if mode = Review.
C8_PendingOnlyInReview ==
    (pc \in Halted /\ previous_recipes # <<>>) => mode = Review

\* C9: no run leaves the offset smaller than it was when the run started.
C9_OffsetMonotonic ==
    pc \in Halted => offset >= offset0

\* C10: between two runs, as long as no Review phase was interrupted, the likes
\* of every tag that has a row equal the sum of the ratings typed for the
\* pending recipes that carry the tag.
C10_LikesAreLedger ==
    (pc \in Halted /\ ~interrupted)
    => \A t \in DOMAIN tags : tags[t] = ledger[t]

\* The positions inside prepare and inside review.
GatherPcs == {"prepare", "store_recipe", "store_tag", "store_rel", "store_prev",
              "increment_offset", "set_mode_review"}
ReviewPcs == {"review", "rate", "update_tag", "delete_prev", "set_mode_prepare"}

\* C11: before the first installation the store is Gather, offset 0, empty
\* history and batch, and the first run is a Gather from that state; a run
\* executes the steps of the one phase the persisted mode named when it
\* started (Gather steps only while mode = Gather, Review steps only while
\* mode = Review); a run that completes has flipped the mode.
C11_OnePhasePerRun ==
    /\ (~installed =>
          mode = Prepare /\ offset = 0 /\ recipes = {} /\ previous_recipes = <<>>)
    /\ ((runs = 1 /\ phase # "none") =>
          phase = "prepare" /\ offset0 = 0 /\ hist0 = {} /\ prev0 = <<>>)
    /\ (pc \in GatherPcs => phase = "prepare" /\ mode = Prepare)
    /\ (pc \in ReviewPcs => phase = "review" /\ mode = Review)
    /\ (phase = "prepare" => mode0 = Prepare)
    /\ (phase = "review" => mode0 = Review)
    /\ (pc = "done" => mode # mode0 /\ phase \in {"prepare", "review"})

C11_Witness ==
    /\ pc = "done"
    /\ runs = 2
    /\ phase = "review"
    /\ mode = Prepare
    /\ rated # <<>>

\* C19: a completed Gather phase has advanced the offset by exactly the
\* number of recipes it selected and added to PendingBatch.
C19_OffsetCountsSelected ==
    (pc = "done" /\ phase = "prepare")
    => offset - offset0 = Len(previous_recipes) - Len(prev0)

\* C20: no run of a Review phase that started with a non-empty PendingBatch
\* ends with PendingBatch cleared while mode is still Review.
C20_ClearAndSwitchAtomic ==
    (pc \in Halted /\ phase = "review" /\ prev0 # <<>> /\ previous_recipes = <<>>)
    => mode = Prepare

\* ---------------------------------------------- utils::numeric, parse_float
MaxLen == 3             \* characters of a quantity text

\* A text is a sequence of characters.  The ASCII characters tried are two
\* digits, the point, the space and a letter; the twenty characters of
\* NUMERIC are written by ASCII names ("1/2" is U+00BD), "0/3" is U+2189 and
\* "1/" is U+215F; "other" is a non-ASCII character NUMERIC does not hold.
\* A number is <<numerator, denominator>>.
NUMERIC ==
    "1/4" :> <<1, 4>> @@ "1/2" :> <<1, 2>> @@ "3/4" :> <<3, 4>> @@
    "1/7" :> <<1, 7>> @@ "1/9" :> <<1, 9>> @@ "1/10" :> <<1, 10>> @@
    "1/3" :> <<1, 3>> @@ "2/3" :> <<2, 3>> @@ "1/5" :> <<1, 5>> @@
    "2/5" :> <<2, 5>> @@ "3/5" :> <<3, 5>> @@ "4/5" :> <<4, 5>> @@
    "1/6" :> <<1, 6>> @@ "5/6" :> <<5, 6>> @@ "1/8" :> <<1, 8>> @@
    "3/8" :> <<3, 8>> @@ "5/8" :> <<5, 8>> @@ "7/8" :> <<7, 8>> @@
    "1/" :> <<1, 1>> @@ "0/3" :> <<0, 1>>

DigitValue == "1" :> 1 @@ "3" :> 3
Digits == DOMAIN DigitValue
AsciiChars == Digits \cup {".", " ", "x"}
Chars == AsciiChars \cup DOMAIN NUMERIC \cup {"other"}
\* The texts of up to n characters.
Texts(n) == UNION {[1..k -> Chars] : k \in 0..n}

RatAdd(a, b) == <<a[1] * b[2] + b[1] * a[2], a[2] * b[2]>>
RatEq(a, b) == a[1] * b[2] = b[1] * a[2]

\* Option and Result values.
Some(v) == [some |-> TRUE, value |-> v]
Nothing == [some |-> FALSE]
Ok(v) == [kind |-> "Ok", value |-> v]
Err(e) == [kind |-> "Err", error |-> e]
Panic == [kind |-> "Panic"]

numeric(c) == IF c \in DOMAIN NUMERIC THEN Some(NUMERIC[c]) ELSE Nothing

is_ascii(s) == \A k \in DOMAIN s : s[k] \in AsciiChars

\* The position of the first space of s, Len(s) + 1 if it has none.
RECURSIVE FirstSpace(_, _)
FirstSpace(s, k) ==
    IF k > Len(s) \/ s[k] = " " THEN k ELSE FirstSpace(s, k + 1)

RECURSIVE split_whitespace(_)
split_whitespace(s) ==
    IF s = <<>> THEN <<>>
    ELSE IF s[1] = " " THEN split_whitespace(Tail(s))
    ELSE LET n == FirstSpace(s, 1)
         IN <<SubSeq(s, 1, n - 1)>> \o split_whitespace(SubSeq(s, n, Len(s)))

\* The texts str::parse::<f64> accepts, over these characters: digits with at
\* most one point and at least one digit, nothing before or after.
IsDecimalText(s) ==
    /\ \A k \in DOMAIN s : s[k] \in Digits \cup {"."}
    /\ Cardinality({k \in DOMAIN s : s[k] = "."}) <= 1
    /\ \E k \in DOMAIN s : s[k] \in Digits

RECURSIVE DigitsValue(_)
DigitsValue(ds) ==
    IF ds = <<>> THEN 0
    ELSE 10 * DigitsValue(SubSeq(ds, 1, Len(ds) - 1)) + DigitValue[ds[Len(ds)]]

RECURSIVE Pow10(_)
Pow10(n) == IF n = 0 THEN 1 ELSE 10 * Pow10(n - 1)

DecimalValue(s) ==
    LET ds == SelectSeq(s, LAMBDA c : c \in Digits)
        after == IF \E k \in DOMAIN s : s[k] = "."
                 THEN Len(s) - (CHOOSE k \in DOMAIN s : s[k] = ".")
                 ELSE 0
    IN <<DigitsValue(ds), Pow10(after)>>

str_parse_f64(s) == IF IsDecimalText(s) THEN Some(DecimalValue(s)) ELSE Nothing

\* Mutant: the whole part of a mixed number is dropped.
mixed_fraction_no_whole(tokens) ==
    LET number_part == str_parse_f64(tokens[1])
        fraction_part == numeric(tokens[2][1])
    IN IF ~number_part.some \/ ~fraction_part.some THEN Panic
       ELSE Ok(fraction_part.value)

\* The "Mixed fraction" branch: both unwraps panic on a None / an Err.
mixed_fraction(tokens) ==
    LET number_part == str_parse_f64(tokens[1])
        fraction_part == numeric(tokens[2][1])
    IN IF ~number_part.some \/ ~fraction_part.some THEN Panic
       ELSE Ok(RatAdd(number_part.value, fraction_part.value))

parse_float(numeric_str) ==
    LET tokens == split_whitespace(numeric_str)
        n_chars == Len(tokens)
        parsed == str_parse_f64(numeric_str)
    IN IF is_ascii(numeric_str) /\ parsed.some THEN Ok(parsed.value)
       ELSE IF n_chars > 1 /\ n_chars < 3 THEN mixed_fraction(tokens)
       ELSE IF n_chars = 1
            THEN LET fraction == numeric(numeric_str[1])
                 IN IF fraction.some THEN Ok(fraction.value)
                    ELSE Err("Not a fraction")
       ELSE Panic

InitParse ==
    /\ InitWorkflow
    /\ fn_pc = "call"
    /\ fn_name = "parse_float"
    /\ fn_args \in Texts(MaxLen)
    /\ fn_locals = <<>>
    /\ fn_ret = <<>>

CallParseFloat ==
    /\ fn_pc = "call"
    /\ fn_name = "parse_float"
    /\ fn_ret' = parse_float(fn_args)
    /\ fn_pc' = "return"
    /\ UNCHANGED <<workflow, fn_name, fn_args, fn_locals>>

NextParse == CallParseFloat

SpecParse == InitParse /\ [][NextParse]_vars

Parsed == fn_pc = "return" /\ fn_name = "parse_float"

\* A decimal, whitespace, one NUMERIC character: the whole part and the
\* character of such a text.
MixedShape(s, a) ==
    /\ a \in 1..(Len(s) - 2)
    /\ IsDecimalText(SubSeq(s, 1, a))
    /\ \A k \in (a + 1)..(Len(s) - 1) : s[k] = " "
    /\ s[Len(s)] \in DOMAIN NUMERIC

\* C17: parse_float returns the number itself for an ordinary decimal
\* ("3" gives 3), the tabulated value for a text that is one character of
\* NUMERIC (each of the twenty), and whole + tabulated value for a decimal,
\* whitespace and one NUMERIC character ("1 1/2" gives 3/2).
C17_ParseFloatValues ==
    Parsed =>
      /\ IsDecimalText(fn_args) =>
            fn_ret.kind = "Ok" /\ RatEq(fn_ret.value, DecimalValue(fn_args))
      /\ fn_args = <<"3">> => fn_ret = Ok(<<3, 1>>)
      /\ \A g \in DOMAIN NUMERIC :
            fn_args = <<g>> => fn_ret = Ok(NUMERIC[g])
      /\ \A a \in DOMAIN fn_args :
            MixedShape(fn_args, a) =>
              /\ fn_ret.kind = "Ok"
              /\ RatEq(fn_ret.value,
                       RatAdd(DecimalValue(SubSeq(fn_args, 1, a)),
                              NUMERIC[fn_args[Len(fn_args)]]))
      /\ fn_args = <<"1", " ", "1/2">> =>
            fn_ret.kind = "Ok" /\ RatEq(fn_ret.value, <<3, 2>>)

C17_Witness ==
    /\ Parsed
    /\ fn_args = <<"1", " ", "1/2">>
    /\ fn_ret.kind = "Ok"
    /\ RatEq(fn_ret.value, <<3, 2>>)

\* ------------------------------------------- api::models, impl Add for Component
MaxMeasurements == 2    \* measurements of one component

cup == [name |-> "cup", abbreviation |-> "cup"]
gram == [name |-> "gram", abbreviation |-> "g"]
cup_c == [name |-> "cup", abbreviation |-> "c"]    \* the same unit name, abbreviated otherwise

flour == [id |-> 42, display_singular |-> "flour"]
plain_flour == [id |-> 42, display_singular |-> "plain flour"]
sugar == [id |-> 7, display_singular |-> "sugar"]
Ingredients == {flour, plain_flour, sugar}

Measurement(id, quantity, unit) == [id |-> id, quantity |-> quantity, unit |-> unit]
Component(ingredient, measurements) ==
    [ingredient |-> ingredient, measurements |-> measurements]

\* Quantities are numbers as parse_float returns them.
Measurements ==
    { Measurement(1, <<1, 1>>, cup), Measurement(2, <<1, 2>>, cup),
      Measurement(3, <<1, 1>>, gram), Measurement(4, <<0, 1>>, cup),
      Measurement(5, <<3, 2>>, gram), Measurement(6, <<1, 1>>, cup_c) }

Components ==
    { Component(g, ms) : g \in Ingredients, ms \in SeqsUpTo(Measurements, MaxMeasurements) }

IncompatibleComponentError == Err("IncompatibleComponentError")

\* Mutant: the id and the unit of the measurement pushed are those of rhs.
add_inner_from_rhs(measurement, rhs_measurements) ==
    LET same == SelectSeq(rhs_measurements,
                          LAMBDA m : m.unit.name = measurement.unit.name)
    IN [k \in 1..Len(same) |->
          Measurement(same[k].id, RatAdd(measurement.quantity, same[k].quantity),
                      same[k].unit)]

\* The measurements add pushes for one measurement of self: one per
\* measurement of rhs with the same unit name, in the order of rhs.
RECURSIVE add_inner(_, _)
add_inner(measurement, rhs_measurements) ==
    IF rhs_measurements = <<>> THEN <<>>
    ELSE LET rhs_measurement == Head(rhs_measurements)
         IN (IF measurement.unit.name # rhs_measurement.unit.name THEN <<>>
             ELSE << Measurement(measurement.id,
                                 RatAdd(measurement.quantity, rhs_measurement.quantity),
                                 measurement.unit) >>)
            \o add_inner(measurement, Tail(rhs_measurements))

RECURSIVE add_outer(_, _)
add_outer(measurements, rhs_measurements) ==
    IF measurements = <<>> THEN <<>>
    ELSE add_inner(Head(measurements), rhs_measurements)
         \o add_outer(Tail(measurements), rhs_measurements)

\* Mutant: the ingredient ids are not compared.
add_unchecked(self, rhs) ==
    Ok(Component(self.ingredient, add_outer(self.measurements, rhs.measurements)))

add(self, rhs) ==
    IF self.ingredient.id # rhs.ingredient.id THEN IncompatibleComponentError
    ELSE Ok(Component(self.ingredient, add_outer(self.measurements, rhs.measurements)))

InitAdd ==
    /\ InitWorkflow
    /\ fn_pc = "call"
    /\ fn_name = "add"
    /\ fn_args \in Components \X Components
    /\ fn_locals = <<>>
    /\ fn_ret = <<>>

CallAdd ==
    /\ fn_pc = "call"
    /\ fn_name = "add"
    /\ fn_ret' = add(fn_args[1], fn_args[2])
    /\ fn_pc' = "return"
    /\ UNCHANGED <<workflow, fn_name, fn_args, fn_locals>>

NextAdd == CallAdd

SpecAdd == InitAdd /\ [][NextAdd]_vars

Added == fn_pc = "return" /\ fn_name = "add"

\* C18: adding two components returns IncompatibleComponentError whenever
\* their ingredient ids differ, whatever their measurements, and returns Ok
\* whenever the ids are equal.
C18_AddFailsIffIdsDiffer ==
    Added =>
      /\ fn_args[1].ingredient.id # fn_args[2].ingredient.id
            => fn_ret = IncompatibleComponentError
      /\ fn_args[1].ingredient.id = fn_args[2].ingredient.id
            => fn_ret.kind = "Ok"

C18_Witness ==
    /\ Added
    /\ fn_args[1].ingredient = flour
    /\ fn_args[2].ingredient = sugar
    /\ fn_args[1].measurements # <<>>
    /\ fn_args[1].measurements = fn_args[2].measurements
    /\ fn_ret = IncompatibleComponentError

\* ------------------------------------------------------ make_shopping_list
MaxComponents == 3      \* components handed to make_shopping_list

egg == [id |-> 3, display_singular |-> "egg"]

\* Quantities are multiples of 1/4, which f64 holds and adds exactly and
\* {:.2} prints without rounding.
ShopComponents ==
    { Component(flour, << Measurement(1, <<1, 1>>, cup) >>),
      Component(flour, << Measurement(2, <<1, 2>>, cup) >>),
      Component(flour, << Measurement(3, <<3, 2>>, cup) >>),
      Component(flour, << Measurement(4, <<1, 1>>, gram) >>),
      Component(flour, << Measurement(1, <<1, 1>>, cup), Measurement(4, <<1, 1>>, gram) >>),
      Component(flour, <<>>),
      Component(sugar, << Measurement(5, <<0, 1>>, cup) >>),
      Component(sugar, << Measurement(5, <<0, 1>>, cup), Measurement(4, <<1, 1>>, gram) >>),
      Component(sugar, << Measurement(6, <<1, 4>>, gram) >>),
      Component(egg, <<>>) }

ComponentLists == SeqsUpTo(ShopComponents, MaxComponents)

\* The position of the first component with this ingredient id, from k on.
RECURSIVE position(_, _, _)
position(combined_components, id, k) ==
    IF combined_components[k].ingredient.id = id THEN k
    ELSE position(combined_components, id, k + 1)

\* Mutant: a component is appended whether or not its ingredient was seen.
combine_one_no_merge(acc, component) ==
    [acc EXCEPT !.ingredient_ids = Append(@, component.ingredient.id),
                !.combined_components = Append(@, component)]

\* Mutant: a component whose ingredient was seen replaces the combined one.
combine_one_keep_last(acc, component) ==
    IF component.ingredient.id \in Range(acc.ingredient_ids)
    THEN [acc EXCEPT !.combined_components[
              position(acc.combined_components, component.ingredient.id, 1)] = component]
    ELSE [acc EXCEPT !.ingredient_ids = Append(@, component.ingredient.id),
                     !.combined_components = Append(@, component)]

\* One turn of the first loop.  acc holds combined_components, ingredient_ids
\* and the error `?` returned, if any.
combine_one(acc, component) ==
    IF acc.error THEN acc
    ELSE IF component.ingredient.id \in Range(acc.ingredient_ids)
    THEN LET k == position(acc.combined_components, component.ingredient.id, 1)
             sum == add(acc.combined_components[k], component)
         IN IF sum.kind = "Err" THEN [acc EXCEPT !.error = TRUE]
            ELSE [acc EXCEPT !.combined_components[k] = sum.value]
    ELSE [acc EXCEPT !.ingredient_ids = Append(@, component.ingredient.id),
                     !.combined_components = Append(@, component)]

RECURSIVE combine(_, _)
combine(acc, components) ==
    IF components = <<>> THEN acc
    ELSE combine(combine_one(acc, Head(components)), Tail(components))

\* format!("{}", quantity as i64)
format_integer(quantity) == ToString(quantity[1] \div quantity[2])

\* format!("{:.2}", quantity)
format_fixed2(quantity) ==
    LET hundredths == (quantity[1] * 100) \div quantity[2]
        cents == hundredths % 100
    IN ToString(hundredths \div 100) \o "."
       \o (IF cents < 10 THEN "0" ELSE "") \o ToString(cents)

\* Mutant: the quantity is always printed with two decimals.
format_line_fixed2(component) ==
    IF Len(component.measurements) = 0
       \/ \A k \in DOMAIN component.measurements :
             component.measurements[k].quantity[1] = 0
    THEN component.ingredient.display_singular
    ELSE component.ingredient.display_singular \o ": "
         \o format_fixed2(component.measurements[1].quantity)
         \o " " \o component.measurements[1].unit.abbreviation

\* One turn of the second loop.
format_line(component) ==
    IF Len(component.measurements) = 0
       \/ \A k \in DOMAIN component.measurements :
             component.measurements[k].quantity[1] = 0
    THEN component.ingredient.display_singular
    ELSE LET quantity == component.measurements[1].quantity
             quantity_str == IF quantity[1] % quantity[2] = 0
                             THEN format_integer(quantity)
                             ELSE format_fixed2(quantity)
         IN component.ingredient.display_singular \o ": " \o quantity_str
            \o " " \o component.measurements[1].unit.abbreviation

\* shopping_list.join("\n")
RECURSIVE join(_)
join(lines) ==
    IF lines = <<>> THEN ""
    ELSE IF Len(lines) = 1 THEN lines[1]
    ELSE lines[1] \o "\n" \o join(Tail(lines))

InitShop ==
    /\ InitWorkflow
    /\ fn_pc = "call"
    /\ fn_name = "make_shopping_list"
    /\ fn_args \in ComponentLists
    /\ fn_locals = <<>>
    /\ fn_ret = <<>>

\* The first loop: consolidation, or the error of an addition.
Consolidate ==
    /\ fn_pc = "call"
    /\ fn_name = "make_shopping_list"
    /\ LET acc == combine([combined_components |-> <<>>, ingredient_ids |-> <<>>,
                           error |-> FALSE, shopping_list |-> <<>>], fn_args)
       IN /\ fn_locals' = acc
          /\ fn_pc' = IF acc.error THEN "return" ELSE "format"
          /\ fn_ret' = IF acc.error THEN IncompatibleComponentError ELSE fn_ret
    /\ UNCHANGED <<workflow, fn_name, fn_args>>

\* The second loop and the join.
Format ==
    /\ fn_pc = "format"
    /\ LET shopping_list ==
             [k \in DOMAIN fn_locals.combined_components |->
                 format_line(fn_locals.combined_components[k])]
       IN /\ fn_locals' = [fn_locals EXCEPT !.shopping_list = shopping_list]
          /\ fn_ret' = Ok(join(shopping_list))
    /\ fn_pc' = "return"
    /\ UNCHANGED <<workflow, fn_name, fn_args>>

NextShop == Consolidate \/ Format

SpecShop == InitShop /\ [][NextShop]_vars

Listed == fn_pc = "return" /\ fn_name = "make_shopping_list"

\* The ingredient ids of a list of components, each at its first occurrence only.
RECURSIVE FirstOccurrences(_, _)
FirstOccurrences(components, seen) ==
    IF components = <<>> THEN <<>>
    ELSE LET id == Head(components).ingredient.id
         IN IF id \in seen THEN FirstOccurrences(Tail(components), seen)
            ELSE <<id>> \o FirstOccurrences(Tail(components), seen \cup {id})

\* Every line that can stand for an ingredient id: a display name of the id
\* alone, or followed by a quantity and an abbreviation.
QuantityTexts ==
    LET whole == {ToString(n) : n \in 0..(2 * MaxComponents)}
    IN whole \cup {w \o "." \o d : w \in whole, d \in {"25", "50", "75"}}
LinesOf(id) ==
    LET names == {g.display_singular : g \in {h \in {flour, sugar, egg} : h.id = id}}
    IN names \cup {n \o ": " \o q \o " " \o u.abbreviation :
                     n \in names, q \in QuantityTexts, u \in {cup, gram}}

\* C12: the shopping list has exactly one line per distinct ingredient id of
\* the input, and the lines are in the order in which the ingredient ids
\* first occur in the input.
C12_OneLinePerIngredientInOrder ==
    Listed =>
      LET first == FirstOccurrences(fn_args, {})
      IN /\ fn_ret.kind = "Ok"
         /\ Len(fn_locals.shopping_list) = Len(first)
         /\ \A k \in DOMAIN first : fn_locals.shopping_list[k] \in LinesOf(first[k])
         /\ fn_ret.value = join(fn_locals.shopping_list)

C12_Witness ==
    /\ Listed
    /\ Len(fn_args) = 3
    /\ fn_args[1].ingredient = sugar
    /\ fn_args[2].ingredient = flour
    /\ fn_args[3].ingredient = sugar
    /\ Len(fn_locals.shopping_list) = 2
    /\ fn_locals.shopping_list[1] \in LinesOf(sugar.id)
    /\ fn_locals.shopping_list[2] \in LinesOf(flour.id)

RECURSIVE SumQuantities(_)
SumQuantities(components) ==
    IF components = <<>> THEN <<0, 1>>
    ELSE RatAdd(Head(components).measurements[1].quantity,
                SumQuantities(Tail(components)))

\* The input components of one ingredient id, when there are two or more and
\* each has one measurement, all of one unit name.
SameUnitGroup(id) ==
    LET cs == SelectSeq(fn_args, LAMBDA c : c.ingredient.id = id)
    IN /\ Len(cs) >= 2
       /\ \A k \in DOMAIN cs : Len(cs[k].measurements) = 1
       /\ \A k \in DOMAIN cs :
             cs[k].measurements[1].unit.name = cs[1].measurements[1].unit.name

\* C13: when two or more input components, anywhere in the input, share an
\* ingredient id and each has a single measurement of the same unit name,
\* the consolidated entry of that ingredient has a single measurement whose
\* quantity is the sum of all of them; 1 cup and 1 cup of ingredient 42
\* give the line "flour: 2 cup".
C13_SameUnitQuantitiesSummed ==
    Listed =>
      /\ \A k \in DOMAIN fn_locals.combined_components :
            LET entry == fn_locals.combined_components[k]
                cs == SelectSeq(fn_args, LAMBDA c : c.ingredient.id = entry.ingredient.id)
            IN SameUnitGroup(entry.ingredient.id) =>
                 /\ Len(entry.measurements) = 1
                 /\ RatEq(entry.measurements[1].quantity, SumQuantities(cs))
                 /\ entry.measurements[1].unit.name = cs[1].measurements[1].unit.name
      /\ fn_args = << Component(flour, << Measurement(1, <<1, 1>>, cup) >>),
                      Component(flour, << Measurement(1, <<1, 1>>, cup) >>) >>
            => fn_ret = Ok("flour: 2 cup")

C13_Witness ==
    /\ Listed
    /\ Len(fn_args) = 3
    /\ fn_args[2].ingredient = sugar
    /\ SameUnitGroup(flour.id)
    /\ fn_args[1].measurements[1].quantity = <<1, 2>>
    /\ fn_args[3].measurements[1].quantity = <<3, 2>>
    /\ Len(fn_locals.combined_components[1].measurements) = 1
    /\ RatEq(fn_locals.combined_components[1].measurements[1].quantity, <<2, 1>>)

RECURSIVE SumLen(_)
SumLen(lines) == IF lines = <<>> THEN 0 ELSE Len(Head(lines)) + SumLen(Tail(lines))

\* C14: each consolidated component gives one line: the display name alone
\* if it has no measurements or all its quantities are zero; otherwise
\* "<name>: <quantity> <abbreviation>" from its first measurement only, the
\* quantity without decimals when it is whole ("flour: 2 cup") and with two
\* decimals otherwise ("flour: 1.50 cup"); the lines are joined by single
\* newlines, with none after the last.
C14_LineFormat ==
    Listed =>
      /\ DOMAIN fn_locals.shopping_list = DOMAIN fn_locals.combined_components
      /\ \A k \in DOMAIN fn_locals.combined_components :
            LET c == fn_locals.combined_components[k]
                line == fn_locals.shopping_list[k]
                name == c.ingredient.display_singular
            IN IF c.measurements = <<>>
                  \/ \A m \in DOMAIN c.measurements : RatEq(c.measurements[m].quantity, <<0, 1>>)
               THEN line = name
               ELSE LET q == c.measurements[1].quantity
                        a == c.measurements[1].unit.abbreviation
                    IN \E w \in 0..(2 * MaxComponents) :
                         \/ /\ RatEq(q, <<w, 1>>)
                            /\ line = name \o ": " \o ToString(w) \o " " \o a
                         \/ \E d \in {"25", "50", "75"} :
                              /\ RatEq(q, <<100 * w + (CHOOSE n \in {25, 50, 75} : ToString(n) = d),
                                            100>>)
                              /\ line = name \o ": " \o ToString(w) \o "." \o d \o " " \o a
      /\ Len(fn_ret.value) =
            SumLen(fn_locals.shopping_list)
            + (IF fn_locals.shopping_list = <<>> THEN 0
               ELSE Len(fn_locals.shopping_list) - 1)
      /\ fn_args = << Component(flour, << Measurement(2, <<1, 2>>, cup) >>),
                      Component(flour, << Measurement(3, <<3, 2>>, cup) >>) >>
            => fn_ret = Ok("flour: 2 cup")
      /\ fn_args = << Component(flour, << Measurement(3, <<3, 2>>, cup) >>),
                      Component(egg, <<>>) >>
            => fn_ret = Ok("flour: 1.50 cup\negg")
      /\ fn_args = <<>> => fn_ret = Ok("")

C14_Witness ==
    /\ Listed
    /\ fn_args = << Component(flour, << Measurement(3, <<3, 2>>, cup) >>),
                    Component(sugar, << Measurement(5, <<0, 1>>, cup) >>),
                    Component(flour, << Measurement(2, <<1, 2>>, cup) >>) >>
    /\ fn_ret = Ok("flour: 2 cup\nsugar")

\* ---------------------------------------- get_matching_recipes on its own
MaxCandidates == 3      \* recipes handed to get_matching_recipes
MaxLikes == 1           \* likes of a tag lie in -MaxLikes..MaxLikes

\* The rows the pool may hold: no relation at all, or the tags of the
\* catalog for every recipe; any likes for the tags.
RelationSamples == {[r \in RecipeIds |-> <<>>], [r \in RecipeIds |-> CatalogTags(r)]}
TagSamples == [TagIds -> (0 - MaxLikes)..MaxLikes]

InitSelect ==
    /\ InitWorkflow
    /\ fn_pc = "call"
    /\ fn_name = "get_matching_recipes"
    /\ fn_args \in SeqsUpTo(RecipeIds, MaxCandidates) \X (0..(MaxCandidates + 1))
                     \X RelationSamples \X TagSamples
    /\ fn_locals = <<>>
    /\ fn_ret = <<>>

CallGetMatchingRecipes ==
    /\ fn_pc = "call"
    /\ fn_name = "get_matching_recipes"
    /\ fn_ret' = get_matching_recipes(fn_args[1], fn_args[2], fn_args[3], fn_args[4])
    /\ fn_pc' = "return"
    /\ UNCHANGED <<workflow, fn_name, fn_args, fn_locals>>

NextSelect == CallGetMatchingRecipes

SpecSelect == InitSelect /\ [][NextSelect]_vars

Selected == fn_pc = "return" /\ fn_name = "get_matching_recipes"

Count(s, x) == Cardinality({k \in DOMAIN s : s[k] = x})
ScoreOf(r) == recipe_score(r, fn_args[3], fn_args[4])

\* C15: for every candidate list and every N >= 0 the selection has exactly
\* min(N, number of candidates) recipes, all of them candidates, and no
\* candidate left out has a strictly higher score than a selected one.
C15_SelectsNHighest ==
    Selected =>
      LET candidates == fn_args[1]
          n == fn_args[2]
      IN /\ Len(fn_ret) = (IF n < Len(candidates) THEN n ELSE Len(candidates))
         /\ \A r \in RecipeIds : Count(fn_ret, r) <= Count(candidates, r)
         /\ \A r, s \in RecipeIds :
               (Count(fn_ret, r) < Count(candidates, r) /\ Count(fn_ret, s) > 0)
               => ScoreOf(r) <= ScoreOf(s)

C15_Witness ==
    /\ Selected
    /\ fn_args[1] = <<1, 2, 3>>
    /\ fn_args[2] = 2
    /\ ScoreOf(1) > ScoreOf(3)
    /\ ScoreOf(3) > ScoreOf(2)
    /\ fn_ret = <<1, 3>>

\* The position of a recipe in a list that holds it once.
Pos(s, x) == CHOOSE k \in DOMAIN s : s[k] = x

\* C16: candidates with equal scores appear in the selection in their
\* original relative order, and a request for more recipes than there are
\* candidates returns all of them, again in that relative order.
C16_TiesKeepOriginalOrder ==
    (Selected /\ Distinct(fn_args[1])) =>
      /\ \A p, q \in DOMAIN fn_ret :
            (p < q /\ ScoreOf(fn_ret[p]) = ScoreOf(fn_ret[q]))
            => Pos(fn_args[1], fn_ret[p]) < Pos(fn_args[1], fn_ret[q])
      /\ fn_args[2] > Len(fn_args[1]) => Range(fn_ret) = Range(fn_args[1])

\* The pairs <<position in left, position in right>> of measurements with
\* equal unit names, left-major.
MatchingPairs(left, right) ==
    LET all == [k \in 1..(Len(left) * Len(right)) |->
                  <<((k - 1) \div Len(right)) + 1, ((k - 1) % Len(right)) + 1>>]
    IN SelectSeq(all, LAMBDA p : left[p[1]].unit.name = right[p[2]].unit.name)

\* C21: adding two components of one ingredient gives, left-major, exactly
\* one measurement for each pair of a left and a right measurement with equal
\* unit names, its quantity the sum of the pair, its id and unit those of the
\* left measurement, and nothing for the other pairs; when no unit name is
\* shared, or either side has no measurements, the result has no
\* measurements and is listed by its name only.
C21_AddPairsLeftMajor ==
    (Added /\ fn_args[1].ingredient.id = fn_args[2].ingredient.id) =>
      LET left == fn_args[1].measurements
          right == fn_args[2].measurements
          pairs == MatchingPairs(left, right)
          got == fn_ret.value.measurements
      IN /\ fn_ret.kind = "Ok"
         /\ fn_ret.value.ingredient = fn_args[1].ingredient
         /\ Len(got) = Len(pairs)
         /\ \A k \in DOMAIN pairs :
               /\ got[k].id = left[pairs[k][1]].id
               /\ got[k].unit = left[pairs[k][1]].unit
               /\ RatEq(got[k].quantity,
                        RatAdd(left[pairs[k][1]].quantity, right[pairs[k][2]].quantity))
         /\ (left = <<>> \/ right = <<>>
             \/ \A a \in DOMAIN left, b \in DOMAIN right :
                   left[a].unit.name # right[b].unit.name)
            => /\ got = <<>>
               /\ format_line(fn_ret.value) = fn_args[1].ingredient.display_singular

C21_Witness ==
    /\ Added
    /\ fn_args[1] = Component(flour, << Measurement(6, <<1, 1>>, cup_c),
                                        Measurement(3, <<1, 1>>, gram) >>)
    /\ fn_args[2] = Component(plain_flour, << Measurement(5, <<3, 2>>, gram),
                                              Measurement(2, <<1, 2>>, cup) >>)
    /\ fn_ret.kind = "Ok"
    /\ Len(fn_ret.value.measurements) = 2
    /\ fn_ret.value.measurements[1].id = 6
    /\ fn_ret.value.measurements[1].unit = cup_c
    /\ RatEq(fn_ret.value.measurements[1].quantity, <<3, 2>>)
    /\ RatEq(fn_ret.value.measurements[2].quantity, <<5, 2>>)

\* The three accepted shapes, whitespace around the parts allowed: a
\* decimal; one NUMERIC character; a decimal, whitespace, one NUMERIC character.
AcceptedShape(text) ==
    LET parts == split_whitespace(text)
    IN \/ IsDecimalText(text)
       \/ /\ Len(parts) = 1
          /\ Len(parts[1]) = 1
          /\ parts[1][1] \in DOMAIN NUMERIC
       \/ /\ Len(parts) = 2
          /\ IsDecimalText(parts[1])
          /\ Len(parts[2]) = 1
          /\ parts[2][1] \in DOMAIN NUMERIC

\* C22: parse_float returns a number only for a text of one of the three
\* accepted shapes; every other text is rejected, and a text that is one
\* character outside NUMERIC is reported as an error, not a panic.
C22_OnlyAcceptedShapesParse ==
    Parsed =>
      /\ fn_ret.kind = "Ok" => AcceptedShape(fn_args)
      /\ fn_args = <<"other">> => fn_ret.kind = "Err"

\* C23: in every state of the store, those left by a failed or interrupted
\* prepare included, every recipe of previous_recipes has its row in
\* `recipes`, and its tags and tag relations are stored.
C23_PendingInHistory ==
    \A k \in DOMAIN previous_recipes :
      LET r == previous_recipes[k]
      IN /\ r \in recipes
         /\ Range(CatalogTags(r)) \subseteq Range(get_recipe_tags(r, recipe_tags))
         /\ Range(CatalogTags(r)) \subseteq DOMAIN tags

C23_Witness ==
    /\ pc = "failed"
    /\ phase = "prepare"
    /\ runs = 1
    /\ previous_recipes # <<>>
    /\ recipes \ Range(previous_recipes) # {}

\* C24: previous_recipes never holds a recipe id twice, and a review asks
\* for the rating of a pending recipe once only, whatever the pages were and
\* whether or not an earlier prepare failed.
C24_PendingDistinct ==
    /\ Distinct(previous_recipes)
    /\ Distinct(rated)

====
